---- MODULE Spec2Model ----
(***************************************************************************)
(* iMi MCP server: run_imi_command (cli_wrapper.py) and the CLIResult      *)
(* record (schemas.py).                                                    *)
(*                                                                         *)
(* Text is a sequence of chunks.  A chunk is either one whitespace         *)
(* character ("\n" or " "), one byte that is not valid UTF-8, or a maximal *)
(* run of non-whitespace characters (a word, or the text of a JSON         *)
(* document).  An optional value is a set: {} is Python's None, {x} is x.  *)
(***************************************************************************)
EXTENDS Integers, Sequences, FiniteSets, TLC

VARIABLES
    config,     \* config[i]: the MCPConfig the invocation was given
    args,       \* args[i]: the caller's argument list
    pc,         \* pc[i]: "start", "spawning", "waiting", "done", "raised"
    imi_binary, \* imi_binary[i]: what shutil.which returned
    cmd_args,   \* cmd_args[i]: the argument vector handed to the child
    child,      \* child[i]: "none", "running", "exited"
    spawns,     \* spawns[i]: child processes created by the invocation
    raw,        \* raw[i]: what process.communicate() returned, if it did
    json_line,  \* json_line[i]: the local json_line after the scan
    outcome,    \* outcome[i]: the CLIResult returned, if any
    spawn_calls, \* spawn_calls[i]: calls of create_subprocess_exec
    process,    \* process[i]: the local process, a handle (pid), if any
    os_procs,   \* the host's process table: who created a pid, its argv
    tool,       \* tool[i]: the MCP tool that made the call, if one did
    tool_result \* tool_result[i]: the WorktreeResult the tool returned

vars == <<config, args, pc, imi_binary, cmd_args, child, spawns, raw,
          json_line, outcome, spawn_calls, process, os_procs, tool,
          tool_result>>

\* ---------------------------------------------------------------- bounds

\* Longest stdout, in chunks.
MaxOut == 3

\* ------------------------------------------------------- optional values

None == {}

Some(x) == {x}

The(o) == CHOOSE x \in o : TRUE

Range(s) == {s[k] : k \in DOMAIN s}

\* ------------------------------------------------------------------ text

LF == "\n"

SP == " "

Whitespace == {LF, SP}

\* A byte that no UTF-8 sequence contains.
BadByte == "<0xff>"

Word == "Cloning..."

RECURSIVE LStrip(_)
LStrip(s) ==
    IF s # <<>> /\ Head(s) \in Whitespace THEN LStrip(Tail(s)) ELSE s

RECURSIVE RStrip(_)
RStrip(s) ==
    IF s # <<>> /\ s[Len(s)] \in Whitespace
    THEN RStrip(SubSeq(s, 1, Len(s) - 1))
    ELSE s

\* str.strip(): leading and trailing whitespace removed.
Strip(s) == RStrip(LStrip(s))

\* str.split("\n"): the pieces between the newlines, at least one piece.
RECURSIVE Split(_)
Split(s) ==
    IF \E k \in DOMAIN s : s[k] = LF
    THEN LET k == CHOOSE j \in DOMAIN s :
                      s[j] = LF /\ \A h \in 1..(j - 1) : s[h] # LF
         IN  <<SubSeq(s, 1, k - 1)>> \o Split(SubSeq(s, k + 1, Len(s)))
    ELSE <<s>>

\* ------------------------------------------------- returning and raising

\* What evaluating a piece of code ends in: a value, or an exception.
Return(r) == [exc |-> None, value |-> Some(r)]

Raise(t, m) == [exc |-> Some([type |-> t, msg |-> m]), value |-> None]

Raised(c) == c.exc # None

\* The exception classes that are subclasses of Exception.  CancelledError
\* and KeyboardInterrupt are not; nothing in run_imi_command raises them.
ExceptionClasses ==
    {"TimeoutError", "JSONDecodeError", "UnicodeDecodeError",
     "ValidationError", "PermissionError", "OSError"}

\* ---------------------------------------------------------- JSON values

JTrue == [type |-> "bool", text |-> <<"true">>]

JFalse == [type |-> "bool", text |-> <<"false">>]

JNull == [type |-> "null", text |-> <<"null">>]

JStr(s) == [type |-> "string", text |-> s]

JPath == [type |-> "object", text |-> <<"{\"path\": \"/x\"}">>]

JList == [type |-> "array", text |-> <<"[1]">>]

JEmpty == [type |-> "object", text |-> <<"{}">>]

\* The JSON documents the child prints, as chunks of stdout.
DocOkData == "{\"success\": true, \"data\": {\"path\": \"/x\"}}"

DocOkError == "{\"success\": true, \"error\": \"boom\"}"

DocFail == "{\"success\": false}"

DocFailError == "{\"success\": false, \"error\": \"boom\"}"

DocNoSuccess == "{\"data\": {\"path\": \"/x\"}}"

DocListData == "{\"success\": true, \"data\": [1]}"

DocEmptyData == "{\"success\": true, \"data\": {}}"

\* Cut short: not a JSON document.
DocBroken == "{\"success\": tru"

JsonDocs ==
    {DocOkData, DocOkError, DocFail, DocFailError, DocNoSuccess, DocListData,
     DocEmptyData}

\* The chunks whose first character is "{".
BraceChunks == JsonDocs \cup {DocBroken}

\* The object a JSON document decodes to.
JsonObject(doc) ==
    CASE doc = DocOkData -> [success |-> JTrue, data |-> JPath]
      [] doc = DocOkError -> [success |-> JTrue, error |-> JStr(<<"boom">>)]
      [] doc = DocFail -> [success |-> JFalse]
      [] doc = DocFailError -> [success |-> JFalse, error |-> JStr(<<"boom">>)]
      [] doc = DocNoSuccess -> [data |-> JPath]
      [] doc = DocListData -> [success |-> JTrue, data |-> JList]
      [] doc = DocEmptyData -> [success |-> JTrue, data |-> JEmpty]

\* json.loads on a stripped line: one whole JSON document and nothing else
\* decodes; anything else (cut short, trailing text, a second document) is
\* a JSONDecodeError.
JsonLoads(s) ==
    IF Len(s) = 1 /\ s[1] \in JsonDocs
    THEN Return(JsonObject(s[1]))
    ELSE Raise("JSONDecodeError", <<"Expecting value">>)

\* str.startswith("{")
StartsWithBrace(s) == s # <<>> /\ s[1] \in BraceChunks

\* dict.get(key, default)
Get(obj, key, default) == IF key \in DOMAIN obj THEN obj[key] ELSE default

\* bytes.decode("utf-8")
Decode(bytes) ==
    IF BadByte \in Range(bytes)
    THEN Raise("UnicodeDecodeError",
               <<"'utf-8' codec can't decode byte 0xff: invalid start byte">>)
    ELSE Return(bytes)

\* ------------------------------------------------------------- CLIResult

\* pydantic's bool field: a bool, the numbers 0 and 1, and a few words.
BoolWordsTrue ==
    {<<"1">>, <<"on">>, <<"t">>, <<"true">>, <<"y">>, <<"yes">>}

BoolWordsFalse ==
    {<<"0">>, <<"off">>, <<"f">>, <<"false">>, <<"n">>, <<"no">>}

IsBool(v) ==
    \/ v.type = "bool"
    \/ v.type = "number" /\ v.text \in {<<"0">>, <<"1">>}
    \/ v.type = "string" /\ v.text \in BoolWordsTrue \cup BoolWordsFalse

AsBool(v) ==
    IF v.type = "bool" THEN v = JTrue ELSE v.text \in BoolWordsTrue

\* CLIResult(success=, data=, error=, stdout=, stderr=, exit_code=): the
\* record, or pydantic's ValidationError when a value does not fit its
\* field (success: bool, data: Optional[Dict], error: Optional[str]).
CLIResult(success, data, error, stdout, stderr, exit_code) ==
    IF /\ IsBool(success)
       /\ data.type \in {"null", "object"}
       /\ error.type \in {"null", "string"}
    THEN Return([success |-> AsBool(success),
                 data |-> IF data.type = "null" THEN None ELSE Some(data),
                 error |-> IF error.type = "null" THEN None
                           ELSE Some(error.text),
                 stdout |-> stdout,
                 stderr |-> stderr,
                 exit_code |-> exit_code])
    ELSE Raise("ValidationError", <<"1 validation error for CLIResult">>)

\* ------------------------------------------------------- run_imi_command

\* config.py, timeout_seconds: default 30, ge=1, le=600.
DefaultTimeout == 30

MinTimeout == 1

MaxTimeout == 600

\* shutil.which on this host: the names on the search path.
SearchPath == [imi |-> "/usr/local/bin/imi"]

\* Which, with the lookup left out: the configured name is taken as found.
WhichUnchecked(name) == Some(name)

Which(name) ==
    IF name \in DOMAIN SearchPath THEN Some(SearchPath[name]) ELSE None

\* Lines 29-34: the executable was not found.
NotFoundResult(cfg) ==
    CLIResult(JFalse, JNull,
              JStr(<<"iMi binary not found: ", cfg.imi_binary_path,
                     ". Ensure iMi is installed and in PATH.">>),
              None, None, 127)

\* CmdArgs, with the flag after the caller's arguments.
CmdArgsFlagLast(binary, a) == <<binary>> \o a \o <<"--json">>

\* Line 37
CmdArgs(binary, a) == <<binary, "--json">> \o a

\* ScanReversed, scanning from the first line: the first qualifying line.
RECURSIVE ScanFrom(_, _)
ScanFrom(lines, k) ==
    IF k > Len(lines) THEN None
    ELSE LET line == Strip(lines[k])
         IN  IF StartsWithBrace(line) /\ ~Raised(JsonLoads(line))
                /\ "success" \in DOMAIN The(JsonLoads(line).value)
             THEN Some(line)
             ELSE ScanFrom(lines, k + 1)

ScanForward(lines, k) == ScanFrom(lines, 1)

\* Lines 63-71: the loop over reversed(lines), at line k; what json_line is
\* when the loop ends.
RECURSIVE ScanReversed(_, _)
ScanReversed(lines, k) ==
    IF k = 0 THEN None
    ELSE LET line == Strip(lines[k])
         IN  IF StartsWithBrace(line)
             THEN LET parsed == JsonLoads(line)
                  IN  IF Raised(parsed)
                      THEN ScanReversed(lines, k - 1)
                      ELSE IF "success" \in DOMAIN The(parsed.value)
                           THEN Some(line)
                           ELSE ScanReversed(lines, k - 1)
             ELSE ScanReversed(lines, k - 1)

\* Lines 59-71
FindJsonLine(stdout_str) ==
    LET lines == Split(stdout_str) IN ScanReversed(lines, Len(lines))

\* Lines 74-81: a JSON line was found.
JsonResult(line, stdout_str, returncode) ==
    LET loaded == JsonLoads(line)
    IN  IF Raised(loaded) THEN loaded
        ELSE LET data == The(loaded.value)
             IN  CLIResult(Get(data, "success", JTrue),
                           Get(data, "data", JNull),
                           Get(data, "error", JNull),
                           Some(stdout_str), None, returncode)

\* PlainResult, with the streams left out.
PlainResultNoStreams(stdout_str, stderr_str, returncode) ==
    CLIResult(JTrue, JNull, JNull, None, None, returncode)

\* Lines 84-89: no JSON line was found.
PlainResult(stdout_str, stderr_str, returncode) ==
    CLIResult(JTrue, JNull, JNull, Some(stdout_str), Some(stderr_str),
              returncode)

\* Lines 92-98: the handler of json.JSONDecodeError.
ParseErrorResult(e, stdout_str, stderr_str, returncode) ==
    CLIResult(JFalse, JNull,
              JStr(<<"Failed to parse JSON output: ">> \o e.msg),
              Some(stdout_str), Some(stderr_str), returncode)

\* Lines 57-98: the inner try statement.
ParseSuccess(stdout_str, stderr_str, returncode) ==
    LET found == FindJsonLine(stdout_str)
        body == IF found # None /\ The(found) # <<>>
                THEN JsonResult(The(found), stdout_str, returncode)
                ELSE PlainResult(stdout_str, stderr_str, returncode)
    IN  IF Raised(body) /\ The(body.exc).type = "JSONDecodeError"
        THEN ParseErrorResult(The(body.exc), stdout_str, stderr_str,
                              returncode)
        ELSE body

\* FailureResult, with stdout taken before stderr.
FailureResultStdoutFirst(stdout_str, stderr_str, returncode) ==
    LET error_msg == IF stdout_str # <<>> THEN stdout_str ELSE stderr_str
    IN  CLIResult(JFalse, JNull,
                  JStr(IF error_msg # <<>> THEN error_msg
                       ELSE <<"Command failed with exit code ",
                              ToString(returncode)>>),
                  Some(stdout_str), Some(stderr_str), returncode)

\* Lines 101-108: the command failed.
FailureResult(stdout_str, stderr_str, returncode) ==
    LET error_msg == IF stderr_str # <<>> THEN stderr_str ELSE stdout_str
    IN  CLIResult(JFalse, JNull,
                  JStr(IF error_msg # <<>> THEN error_msg
                       ELSE <<"Command failed with exit code ",
                              ToString(returncode)>>),
                  Some(stdout_str), Some(stderr_str), returncode)

\* Lines 52-108: what follows the return of process.communicate().
AfterCommunicate(r) ==
    LET out == Decode(r.stdout)
        err == Decode(r.stderr)
    IN  IF Raised(out) THEN out
        ELSE IF Raised(err) THEN err
        ELSE LET stdout_str == Strip(The(out.value))
                 stderr_str == Strip(The(err.value))
             IN  IF r.returncode = 0
                 THEN ParseSuccess(stdout_str, stderr_str, r.returncode)
                 ELSE FailureResult(stdout_str, stderr_str, r.returncode)

\* TimeoutResult, with the default number of seconds in the message.
TimeoutResultDefault(cfg) ==
    CLIResult(JFalse, JNull,
              JStr(<<"Command timed out after ", ToString(DefaultTimeout),
                     " seconds">>),
              None, None, 124)

\* Lines 111-115
TimeoutResult(cfg) ==
    CLIResult(JFalse, JNull,
              JStr(<<"Command timed out after ",
                     ToString(cfg.timeout_seconds), " seconds">>),
              None, None, 124)

\* Lines 118-120
UnexpectedResult(e) ==
    CLIResult(JFalse, JNull, JStr(<<"Unexpected error: ">> \o e.msg),
              None, None, 1)

\* ExceptClauses, without the clause for Exception.
ExceptClausesTimeoutOnly(c, cfg) ==
    IF Raised(c) /\ The(c.exc).type = "TimeoutError"
    THEN TimeoutResult(cfg)
    ELSE c

\* Lines 110-120: the except clauses of the outer try statement.
ExceptClauses(c, cfg) ==
    IF ~Raised(c) THEN c
    ELSE LET e == The(c.exc)
         IN  IF e.type = "TimeoutError" THEN TimeoutResult(cfg)
             ELSE IF e.type \in ExceptionClasses THEN UnexpectedResult(e)
             ELSE c

\* The json_line local when the function is left (None where the scan
\* was never reached).
JsonLineLocal(r) ==
    IF ~Raised(Decode(r.stdout)) /\ ~Raised(Decode(r.stderr))
       /\ r.returncode = 0
    THEN FindJsonLine(Strip(r.stdout))
    ELSE None

\* ---------------------------------------------------------------- inputs

Configs ==
    [imi_binary_path : {"imi", "imi-typo"},
     timeout_seconds : {MinTimeout, DefaultTimeout, MaxTimeout}]

ArgLists == {<<"list">>, <<"add", "feat", "my-feature">>}

OutChunks == {LF, SP, Word, BadByte} \cup BraceChunks

OutTexts == UNION {[1..n -> OutChunks] : n \in 0..MaxOut}

ErrTexts ==
    {<<>>, <<LF>>, <<"permission", SP, "denied", LF>>, <<BadByte>>}

ExitCodes == {0, 1, 2}

\* What process.communicate() and process.returncode can give.
Runs == [returncode : ExitCodes, stdout : OutTexts, stderr : ErrTexts]

\* What create_subprocess_exec can raise.
SpawnErrors ==
    {[type |-> "PermissionError", msg |-> <<"[Errno 13] Permission denied">>],
     [type |-> "OSError", msg |-> <<"[Errno 8] Exec format error">>]}

\* ------------------------------------------------------------------ steps

Invocations == {1}

\* The state of calls ids before their first step.
Fresh(ids) ==
    /\ pc = [i \in ids |-> "start"]
    /\ imi_binary = [i \in ids |-> None]
    /\ cmd_args = [i \in ids |-> <<>>]
    /\ process = [i \in ids |-> None]
    /\ child = [i \in ids |-> "none"]
    /\ spawn_calls = [i \in ids |-> 0]
    /\ spawns = [i \in ids |-> 0]
    /\ raw = [i \in ids |-> None]
    /\ json_line = [i \in ids |-> None]
    /\ outcome = [i \in ids |-> None]
    /\ tool_result = [i \in ids |-> None]
    /\ os_procs = <<>>

Init ==
    /\ config \in [Invocations -> Configs]
    /\ args \in [Invocations -> ArgLists]
    /\ tool = [i \in Invocations |-> None]
    /\ Fresh(Invocations)

\* The function is left with c: a return statement, or an exception that
\* no except clause took.
Leave(i, c) ==
    /\ pc' = [pc EXCEPT ![i] = IF Raised(c) THEN "raised" ELSE "done"]
    /\ outcome' = [outcome EXCEPT ![i] = c.value]

\* Lines 27-37
Resolve(i) ==
    /\ pc[i] = "start"
    /\ LET found == Which(config[i].imi_binary_path)
       IN  /\ imi_binary' = [imi_binary EXCEPT ![i] = found]
           /\ IF found = None
              THEN /\ Leave(i, NotFoundResult(config[i]))
                   /\ UNCHANGED cmd_args
              ELSE /\ cmd_args' =
                          [cmd_args EXCEPT ![i] = CmdArgs(The(found), args[i])]
                   /\ pc' = [pc EXCEPT ![i] = "spawning"]
                   /\ UNCHANGED outcome
    /\ UNCHANGED <<config, args, child, spawns, raw, json_line, spawn_calls,
                   process, os_procs, tool, tool_result>>

\* Lines 41-45: create_subprocess_exec(*cmd_args) creates the child, the
\* next entry of the host's process table; process is its handle.  The
\* function waits at line 48.
Spawn(i) ==
    /\ pc[i] = "spawning"
    /\ spawn_calls' = [spawn_calls EXCEPT ![i] = @ + 1]
    /\ os_procs' = Append(os_procs, [creator |-> i, argv |-> cmd_args[i]])
    /\ process' = [process EXCEPT ![i] = Some(Len(os_procs) + 1)]
    /\ child' = [child EXCEPT ![i] = "running"]
    /\ spawns' = [spawns EXCEPT ![i] = @ + 1]
    /\ pc' = [pc EXCEPT ![i] = "waiting"]
    /\ UNCHANGED <<config, args, imi_binary, cmd_args, raw, json_line,
                   outcome, tool, tool_result>>

\* SpawnFails, going back to line 41 after the failure.
SpawnFailsRetries(i) ==
    /\ pc[i] = "spawning"
    /\ spawn_calls' = [spawn_calls EXCEPT ![i] = @ + 1]
    /\ UNCHANGED <<config, args, pc, imi_binary, cmd_args, child, spawns,
                   raw, json_line, outcome, process, os_procs, tool,
                   tool_result>>

\* Lines 41-45: create_subprocess_exec raises; no child exists.
SpawnFails(i) ==
    /\ pc[i] = "spawning"
    /\ spawn_calls' = [spawn_calls EXCEPT ![i] = @ + 1]
    /\ \E e \in SpawnErrors :
           Leave(i, ExceptClauses(Raise(e.type, e.msg), config[i]))
    /\ UNCHANGED <<config, args, imi_binary, cmd_args, child, spawns, raw,
                   json_line, process, os_procs, tool, tool_result>>

\* The child terminates, whether or not anything still waits for it.
ChildExits(i) ==
    /\ child[i] = "running"
    /\ child' = [child EXCEPT ![i] = "exited"]
    /\ UNCHANGED <<config, args, pc, imi_binary, cmd_args, spawns, raw,
                   json_line, outcome, spawn_calls, process, os_procs, tool,
                   tool_result>>

\* Timeout, recording the result and waiting on.
TimeoutKeepsWaiting(i) ==
    /\ pc[i] = "waiting"
    /\ outcome' = [outcome EXCEPT ![i] = TimeoutResult(config[i]).value]
    /\ UNCHANGED <<config, args, pc, imi_binary, cmd_args, child, spawns,
                   raw, json_line, spawn_calls, process, os_procs, tool,
                   tool_result>>

\* Lines 48-50 and 110-115: timeout_seconds pass before wait_for has handed
\* over the result of communicate(): the child is still running, or it
\* has just terminated and the waiting task has not been resumed yet.
\* wait_for cancels communicate() and raises TimeoutError.  Nothing in the
\* function signals or waits for the child.
Timeout(i) ==
    /\ pc[i] = "waiting"
    /\ Leave(i, ExceptClauses(Raise("TimeoutError", <<>>), config[i]))
    /\ UNCHANGED <<config, args, imi_binary, cmd_args, child, spawns, raw,
                   json_line, spawn_calls, process, os_procs, tool,
                   tool_result>>

\* Lines 48-108 and 117-120: communicate() on the process handle returns
\* what the child wrote, one of rs.
CompleteWith(i, rs) ==
    /\ pc[i] = "waiting"
    /\ process[i] # None
    /\ child[os_procs[The(process[i])].creator] = "exited"
    /\ \E r \in rs :
           /\ raw' = [raw EXCEPT ![i] = Some(r)]
           /\ json_line' = [json_line EXCEPT ![i] = JsonLineLocal(r)]
           /\ Leave(i, ExceptClauses(AfterCommunicate(r), config[i]))
    /\ UNCHANGED <<config, args, imi_binary, cmd_args, child, spawns,
                   spawn_calls, process, os_procs, tool, tool_result>>

Complete(i) == CompleteWith(i, Runs)

Next ==
    \E i \in Invocations :
        \/ Resolve(i)
        \/ Spawn(i)
        \/ SpawnFails(i)
        \/ ChildExits(i)
        \/ Timeout(i)
        \/ Complete(i)

Spec == Init /\ [][Next]_vars

\* ------------------------------------------------------ concurrent calls

\* Calls in flight at once on the event loop.
NumCallers == 2

Callers == 1..NumCallers

ConcConfigs ==
    [imi_binary_path : {"imi", "imi-typo"}, timeout_seconds : {DefaultTimeout}]

\* A few runs of the child: a JSON line after a banner, a failure, a line
\* the record does not take, and a child that itself exits with 124.
ConcRuns ==
    {[returncode |-> 0, stdout |-> <<Word, LF, DocOkData, LF>>,
      stderr |-> <<>>],
     [returncode |-> 2, stdout |-> <<>>,
      stderr |-> <<"permission", SP, "denied", LF>>],
     [returncode |-> 0, stdout |-> <<DocListData>>, stderr |-> <<>>],
     [returncode |-> 124, stdout |-> <<>>, stderr |-> <<>>]}

ConcInit ==
    /\ config \in [Callers -> ConcConfigs]
    /\ args \in [Callers -> ArgLists]
    /\ tool = [i \in Callers |-> None]
    /\ Fresh(Callers)

ConcComplete(i) == CompleteWith(i, ConcRuns)

ConcNext ==
    \E i \in Callers :
        \/ Resolve(i)
        \/ Spawn(i)
        \/ SpawnFails(i)
        \/ ChildExits(i)
        \/ Timeout(i)
        \/ ConcComplete(i)

\* The event loop runs every callback that is ready, and the timer of
\* wait_for expires after timeout_seconds: a call that can take a step of
\* its own takes one.  The child owes nothing: it may run for ever.
ConcFairness ==
    \A i \in Callers :
        /\ WF_vars(Resolve(i))
        /\ WF_vars(Spawn(i) \/ SpawnFails(i))
        /\ WF_vars(Timeout(i) \/ ConcComplete(i))

ConcSpec == ConcInit /\ [][ConcNext]_vars /\ ConcFairness

\* ------------------------------------------------------------- tools.py

Tools ==
    {"create_worktree", "create_review_worktree", "list_worktrees",
     "show_status", "create_project", "navigate_worktree", "remove_worktree",
     "sync_worktrees", "prune_worktrees", "list_types"}

\* The args each tool builds, called with name = "my-feature",
\* pr_number = 42 and its other parameters at their defaults.
ToolArgs(t) ==
    CASE t = "create_worktree" -> <<"add", "feat", "my-feature">>
      [] t = "create_review_worktree" -> <<"review", "42">>
      [] t = "list_worktrees" -> <<"list">>
      [] t = "show_status" -> <<"status">>
      [] t = "create_project" -> <<"project", "create">>
      [] t = "navigate_worktree" -> <<"go">>
      [] t = "remove_worktree" -> <<"remove", "my-feature">>
      [] t = "sync_worktrees" -> <<"sync">>
      [] t = "prune_worktrees" -> <<"prune">>
      [] t = "list_types" -> <<"types", "list">>

\* The condition of the tool's if statement: TRUE for
\* "result.success and result.data", FALSE for "result.success".
RequiresData(t) ==
    CASE t = "create_worktree" -> TRUE
      [] t = "create_review_worktree" -> TRUE
      [] t = "list_worktrees" -> FALSE
      [] t = "show_status" -> FALSE
      [] t = "create_project" -> TRUE
      [] t = "navigate_worktree" -> TRUE
      [] t = "remove_worktree" -> TRUE
      [] t = "sync_worktrees" -> TRUE
      [] t = "prune_worktrees" -> TRUE
      [] t = "list_types" -> TRUE

SuccessMessage(t) ==
    CASE t = "create_worktree" ->
             <<"Worktree '", "my-feature", "' created successfully">>
      [] t = "create_review_worktree" ->
             <<"Review worktree for PR #", "42", " created successfully">>
      [] t = "list_worktrees" -> <<"Worktrees listed successfully">>
      [] t = "show_status" -> <<"Status retrieved successfully">>
      [] t = "create_project" -> <<"Project created successfully">>
      [] t = "navigate_worktree" -> <<"Worktree located successfully">>
      [] t = "remove_worktree" ->
             <<"Worktree '", "my-feature", "' removed successfully">>
      [] t = "sync_worktrees" -> <<"Worktrees synced successfully">>
      [] t = "prune_worktrees" -> <<"Prune completed successfully">>
      [] t = "list_types" -> <<"Worktree types listed successfully">>

FailureMessage(t) ==
    CASE t = "create_worktree" ->
             <<"Failed to create worktree '", "my-feature", "'">>
      [] t = "create_review_worktree" ->
             <<"Failed to create review worktree for PR #", "42">>
      [] t = "list_worktrees" -> <<"Failed to list worktrees">>
      [] t = "show_status" -> <<"Failed to retrieve status">>
      [] t = "create_project" -> <<"Failed to create project">>
      [] t = "navigate_worktree" -> <<"Failed to locate worktree">>
      [] t = "remove_worktree" ->
             <<"Failed to remove worktree '", "my-feature", "'">>
      [] t = "sync_worktrees" -> <<"Failed to sync worktrees">>
      [] t = "prune_worktrees" -> <<"Failed to prune worktrees">>
      [] t = "list_types" -> <<"Failed to list worktree types">>

\* schemas.py, WorktreeResult
WorktreeResult(success, message, data, error) ==
    [success |-> success, message |-> message, data |-> data, error |-> error]

\* Python's truth of result.data: a dict with at least one key.
DataTruthy(data) == data # None /\ The(data) # JEmpty

\* {"output": result.stdout}
OutputDict(stdout) ==
    [type |-> "object",
     text |-> <<"{\"output\": ">>
              \o (IF stdout = None THEN <<"null">> ELSE The(stdout))
              \o <<"}">>]

\* result.error or "Unknown error"
ErrorOrUnknown(error) ==
    IF error # None /\ The(error) # <<>> THEN The(error)
    ELSE <<"Unknown error">>

\* The if statement that ends every tool, on the CLIResult result.
ToolResult(t, result) ==
    IF result.success /\ (RequiresData(t) => DataTruthy(result.data))
    THEN WorktreeResult(TRUE, SuccessMessage(t),
                        IF DataTruthy(result.data) THEN result.data
                        ELSE Some(OutputDict(result.stdout)),
                        None)
    ELSE WorktreeResult(FALSE, FailureMessage(t), None,
                        Some(ErrorOrUnknown(result.error)))

\* The tool's await of run_imi_command returns and the tool returns.
ToolReturns(i) ==
    /\ tool[i] # None
    /\ pc[i] = "done"
    /\ tool_result[i] = None
    /\ tool_result' =
           [tool_result EXCEPT ![i] = Some(ToolResult(The(tool[i]), The(outcome[i])))]
    /\ UNCHANGED <<config, args, pc, imi_binary, cmd_args, child, spawns,
                   raw, json_line, outcome, spawn_calls, process, os_procs,
                   tool>>

\* Runs of the child that tell the tools apart: a payload, a banner only,
\* nothing at all, success with an error, an empty payload, a reported
\* failure with and without a message, a payload that is a list, and
\* non-zero exits with and without stderr.
ToolRuns ==
    [returncode : {0}, stderr : {<<>>},
     stdout : {<<Word, LF, DocOkData, LF>>, <<Word, LF>>, <<>>,
               <<DocOkError>>, <<DocEmptyData>>, <<DocFail>>,
               <<DocFailError>>, <<DocListData>>}]
    \cup [returncode : {2}, stdout : {<<>>},
          stderr : {<<>>, <<"permission", SP, "denied", LF>>, <<BadByte>>}]

ToolInit ==
    /\ config \in [Invocations -> Configs]
    /\ tool \in [Invocations -> {Some(t) : t \in Tools}]
    /\ args = [i \in Invocations |-> ToolArgs(The(tool[i]))]
    /\ Fresh(Invocations)

ToolComplete(i) == CompleteWith(i, ToolRuns)

ToolNext ==
    \E i \in Invocations :
        \/ Resolve(i)
        \/ Spawn(i)
        \/ SpawnFails(i)
        \/ ChildExits(i)
        \/ Timeout(i)
        \/ ToolComplete(i)
        \/ ToolReturns(i)

ToolSpec == ToolInit /\ [][ToolNext]_vars

\* ---------------------------------------------------------------- claims

Returned(i) == pc[i] = "done"

Out(i) == The(outcome[i])

Completed(i) == Returned(i) /\ raw[i] # None

Ran(i) == The(raw[i])

\* Both streams are valid UTF-8.
Decodable(r) == BadByte \notin Range(r.stdout) \cup Range(r.stderr)

\* A line of stdout that, trimmed, starts with "{", decodes, and has a
\* field named success.
Qualifies(line) ==
    LET t == Strip(line)
    IN  /\ t # <<>>
        /\ t[1] \in BraceChunks
        /\ Len(t) = 1
        /\ t[1] \in JsonDocs
        /\ "success" \in DOMAIN JsonObject(t[1])

\* The numbers of the qualifying lines of the captured stdout.
QualifyingLines(r) ==
    {k \in DOMAIN Split(r.stdout) : Qualifies(Split(r.stdout)[k])}

LastQualifying(r) ==
    LET q == QualifyingLines(r)
        k == CHOOSE m \in q : \A n \in q : n <= m
    IN  Strip(Split(r.stdout)[k])

\* The object on the last qualifying line.
LastObject(r) == JsonObject(LastQualifying(r)[1])

\* C1: every Outcome returned has ok = true with no errorMessage, or
\* ok = false with a non-empty errorMessage, whatever the selected
\* structured line holds.
C1_ErrorIffFailed ==
    \A i \in Invocations :
        Returned(i) =>
            /\ Out(i).success => Out(i).error = None
            /\ ~Out(i).success =>
                   Out(i).error # None /\ The(Out(i).error) # <<>>

\* The fields of an Outcome, each of its type.
WellFormed(o) ==
    /\ DOMAIN o = {"success", "data", "error", "stdout", "stderr", "exit_code"}
    /\ o.success \in BOOLEAN
    /\ o.exit_code \in Int
    /\ Cardinality(o.data) <= 1
    /\ Cardinality(o.error) <= 1
    /\ Cardinality(o.stdout) <= 1
    /\ Cardinality(o.stderr) <= 1
    /\ \A d \in o.data : d.type = "object"

Step(i) ==
    \/ Resolve(i) \/ Spawn(i) \/ SpawnFails(i)
    \/ ChildExits(i) \/ Timeout(i) \/ Complete(i)

TimedOut(i) == Returned(i) /\ spawns[i] > 0 /\ raw[i] = None

C5_ChildReclaimedOnReturn ==
    \A i \in Invocations : Returned(i) => child[i] # "running"

\* Exit status 0 and both streams valid UTF-8.
CleanExit(i) ==
    Completed(i) /\ Ran(i).returncode = 0 /\ Decodable(Ran(i))

\* C6: on exit status 0 the structured line is the last line of stdout
\* that, trimmed, starts with "{", decodes and has a success field; lines
\* that start with "{" and do not decode, or lack the field, are passed
\* over; and the Outcome built from a line is built from that one.
C6_LastQualifyingLine ==
    \A i \in Invocations :
        CleanExit(i) =>
            IF QualifyingLines(Ran(i)) = {}
            THEN json_line[i] = None
            ELSE /\ json_line[i] = Some(LastQualifying(Ran(i)))
                 /\ Out(i).exit_code = 0 =>
                        /\ Out(i).success = (LastObject(Ran(i)).success = JTrue)
                        /\ Out(i).data =
                               IF "data" \in DOMAIN LastObject(Ran(i))
                               THEN Some(LastObject(Ran(i)).data)
                               ELSE None

\* C6 witness: two qualifying lines that differ; the later one is taken.
C6_Witness ==
    \E i \in Invocations :
        /\ CleanExit(i)
        /\ Cardinality(QualifyingLines(Ran(i))) = 2
        /\ \E k \in QualifyingLines(Ran(i)) :
               Strip(Split(Ran(i).stdout)[k]) # LastQualifying(Ran(i))
        /\ json_line[i] = Some(LastQualifying(Ran(i)))
        /\ Out(i).exit_code = 0

\* C7: on exit status 0 with a qualifying line, ok is the line's success
\* field, payload its data field whatever JSON value that is (absent when
\* the line has none), errorMessage its error field, stdout is kept (here:
\* up to surrounding whitespace), and the exit code is 0.
C7_OutcomeFromLine ==
    \A i \in Invocations :
        (CleanExit(i) /\ QualifyingLines(Ran(i)) # {}) =>
            LET obj == LastObject(Ran(i))
            IN  /\ Out(i).success = (obj.success = JTrue)
                /\ Out(i).data =
                       IF "data" \in DOMAIN obj THEN Some(obj.data) ELSE None
                /\ Out(i).error =
                       IF "error" \in DOMAIN obj THEN Some(obj.error.text)
                       ELSE None
                /\ Out(i).stdout = Some(Strip(Ran(i).stdout))
                /\ Out(i).exit_code = 0

\* Exit status 0, streams that decode, and no qualifying line.
PlainExit(i) == CleanExit(i) /\ QualifyingLines(Ran(i)) = {}

\* C8: on exit status 0 with no qualifying line the Outcome is ok = true,
\* no payload, exit code 0, and rawStdout and rawStderr are exactly the
\* captured stdout and stderr.
C8_PlainSuccessVerbatim ==
    \A i \in Invocations :
        PlainExit(i) =>
            /\ Out(i).success
            /\ Out(i).data = None
            /\ Out(i).exit_code = 0
            /\ Out(i).stdout = Some(Ran(i).stdout)
            /\ Out(i).stderr = Some(Ran(i).stderr)

\* C8, amended: on exit status 0 with output that decodes and no
\* qualifying line the Outcome is ok = true, no payload, no errorMessage,
\* exit code 0, and rawStdout and rawStderr are the captured stdout and
\* stderr with leading and trailing whitespace removed.
C8_PlainSuccessStripped ==
    \A i \in Invocations :
        PlainExit(i) =>
            /\ Out(i).success
            /\ Out(i).data = None
            /\ Out(i).error = None
            /\ Out(i).exit_code = 0
            /\ Out(i).stdout = Some(Strip(Ran(i).stdout))
            /\ Out(i).stderr = Some(Strip(Ran(i).stderr))

\* C8 witness: "Cloning...\n" on stdout, "permission denied\n" on stderr.
C8_Witness ==
    \E i \in Invocations :
        /\ PlainExit(i)
        /\ Ran(i).stdout = <<Word, LF>>
        /\ Ran(i).stderr = <<"permission", SP, "denied", LF>>
        /\ Out(i).stdout = Some(<<Word>>)

\* The message line 104 generates.
ExitMessage(n) == <<"Command failed with exit code ", ToString(n)>>

\* C9: for a non-zero exit status n and any stdout and stderr, ok = false,
\* the exit code is n, stdout and stderr are retained, there is no
\* payload, and errorMessage is the stderr text if non-empty, else the
\* stdout text if non-empty, else "Command failed with exit code <n>".
C9_FailureVerbatim ==
    \A i \in Invocations :
        (Completed(i) /\ Ran(i).returncode # 0) =>
            /\ ~Out(i).success
            /\ Out(i).exit_code = Ran(i).returncode
            /\ Out(i).stdout = Some(Ran(i).stdout)
            /\ Out(i).stderr = Some(Ran(i).stderr)
            /\ Out(i).data = None
            /\ Out(i).error =
                   Some(IF Ran(i).stderr # <<>> THEN Ran(i).stderr
                        ELSE IF Ran(i).stdout # <<>> THEN Ran(i).stdout
                        ELSE ExitMessage(Ran(i).returncode))

\* C9, amended: for a non-zero exit status n and stdout and stderr that
\* decode, with "text" the decoded stream less its leading and trailing
\* whitespace: ok = false, the exit code is n, both texts are retained,
\* there is no payload, and errorMessage is the stderr text if non-empty,
\* else the stdout text if non-empty, else the generated message.
C9_FailureStripped ==
    \A i \in Invocations :
        (Completed(i) /\ Ran(i).returncode # 0 /\ Decodable(Ran(i))) =>
            LET out == Strip(Ran(i).stdout)
                err == Strip(Ran(i).stderr)
            IN  /\ ~Out(i).success
                /\ Out(i).exit_code = Ran(i).returncode
                /\ Out(i).stdout = Some(out)
                /\ Out(i).stderr = Some(err)
                /\ Out(i).data = None
                /\ Out(i).error =
                       Some(IF err # <<>> THEN err
                            ELSE IF out # <<>> THEN out
                            ELSE ExitMessage(Ran(i).returncode))

\* C9 witness: exit 2, stderr only a newline, and stdout a JSON line with
\* success = true: the message is the stdout text.
C9_Witness ==
    \E i \in Invocations :
        /\ Completed(i)
        /\ Ran(i).returncode = 2
        /\ Ran(i).stderr = <<LF>>
        /\ Ran(i).stdout = <<DocOkData, LF>>
        /\ Out(i).error = Some(<<DocOkData>>)
        /\ ~Out(i).success

\* C10: when the child ran to completion, the stdout text and the stderr
\* text it produced are in the Outcome (here: up to surrounding
\* whitespace), on every path.
C10_StreamsRetained ==
    \A i \in Invocations :
        (Completed(i) /\ Decodable(Ran(i))) =>
            /\ Strip(Ran(i).stdout) # <<>> =>
                   Out(i).stdout = Some(Strip(Ran(i).stdout))
            /\ Strip(Ran(i).stderr) # <<>> =>
                   Out(i).stderr = Some(Strip(Ran(i).stderr))

\* The child processes the host created for call i.
ChildrenOf(i) == {p \in DOMAIN os_procs : os_procs[p].creator = i}

Resolvable(i) == config[i].imi_binary_path \in DOMAIN SearchPath

C12_JsonFlagThenArgs ==
    /\ \A p \in DOMAIN os_procs :
           LET i == os_procs[p].creator
           IN  /\ Head(os_procs[p].argv) =
                      SearchPath[config[i].imi_binary_path]
               /\ Tail(os_procs[p].argv) = <<"--json">> \o args[i]
    /\ \A i \in DOMAIN pc :
           spawn_calls[i] > 0 => Tail(cmd_args[i]) = <<"--json">> \o args[i]

C12_Witness ==
    \E p \in DOMAIN os_procs :
        /\ args[os_procs[p].creator] = <<"add", "feat", "my-feature">>
        /\ os_procs[p].argv =
               <<"/usr/local/bin/imi", "--json", "add", "feat", "my-feature">>

\* The Outcome of lines 111-115.
IsTimeoutOutcome(o) ==
    /\ o.exit_code = 124
    /\ o.error # None
    /\ "Command timed out after " \in Range(The(o.error))

\* An Outcome made from what communicate() returned: the child's exit
\* status and its stdout, or the Outcome of lines 118-120.
IsProcessOutcome(o, r) ==
    \/ o.exit_code = r.returncode /\ o.stdout = Some(Strip(r.stdout))
    \/ /\ o.exit_code = 1
       /\ o.error # None
       /\ "Unexpected error: " \in Range(The(o.error))

\* A call past its spawn returned the timeout Outcome or an Outcome of the
\* completed process, and not both.
OneBranch ==
    \A i \in DOMAIN pc :
        /\ pc[i] # "raised"
        /\ (Returned(i) /\ process[i] # None) =>
               /\ outcome[i] # None
               /\ raw[i] = None =>
                      IsTimeoutOutcome(Out(i)) /\ child[i] # "none"
               /\ raw[i] # None =>
                      /\ IsProcessOutcome(Out(i), Ran(i))
                      /\ ~IsTimeoutOutcome(Out(i))
                      /\ child[i] = "exited"

\* What a call returned is not replaced, and a call that returned takes
\* no further step.
ReturnsOnce ==
    \A i \in DOMAIN pc :
        outcome[i] # None =>
            /\ outcome'[i] = outcome[i]
            /\ pc'[i] = pc[i]
            /\ raw'[i] = raw[i]

PayloadTools ==
    {"create_worktree", "create_review_worktree", "create_project",
     "navigate_worktree", "remove_worktree", "sync_worktrees",
     "prune_worktrees", "list_types"}

OutputTools == {"list_worktrees", "show_status"}

\* The Outcome carries a non-empty payload.
HasPayload(o) == o.data # None /\ The(o.data).text # <<"{}">>

\* C14: the eight payload tools report success exactly for ok = true with
\* a non-empty payload, and report ok = true without payload as a failure
\* with error "Unknown error"; list_worktrees and show_status report every
\* ok = true as success, with {"output": stdout} for an absent payload;
\* every failed tool result has a non-empty error.
C14_ToolReports ==
    \A i \in DOMAIN pc :
        tool_result[i] # None =>
            LET t == The(tool[i])
                o == Out(i)
                w == The(tool_result[i])
            IN  /\ t \in PayloadTools =>
                       /\ w.success <=> (o.success /\ HasPayload(o))
                       /\ (o.success /\ ~HasPayload(o)) =>
                              w.error = Some(<<"Unknown error">>)
                /\ t \in OutputTools =>
                       /\ w.success <=> o.success
                       /\ (o.success /\ o.data = None) =>
                              w.data # None
                              /\ The(w.data).text =
                                     <<"{\"output\": ">> \o The(o.stdout)
                                         \o <<"}">>
                /\ ~w.success => w.error # None /\ The(w.error) # <<>>

====
